---- MODULE Spec2Model ----
(***************************************************************************)
(* Model of src/II_Wilk_Matysek/src/main.rs: an IPv6 prefix overlap test.  *)
(*                                                                         *)
(* A string is a sequence of one-character strings.  A u64 is a sequence   *)
(* of four 16-bit words, most significant first, so that the width is      *)
(* explicit: &, | and ! work word by word and a left shift drops the bits  *)
(* that leave the 64.  A u8 or u16 is an integer.                          *)
(***************************************************************************)
EXTENDS Integers, Sequences, FiniteSets, TLC

VARIABLES args, pc, p1, p2, loc, out

vars == <<args, pc, p1, p2, loc, out>>

\* ------------------------------------------------------------------------
\* Primitive integer types
\* ------------------------------------------------------------------------

U8Max == 255
U16Max == 65535

SetMin(S) == CHOOSE x \in S : \A y \in S : x <= y

Pow2(n) == 2 ^ n

\* u64::MAX, !0u64
U64Max == <<65535, 65535, 65535, 65535>>

U64Zero == <<0, 0, 0, 0>>

\* a & b on 16-bit words, bit by bit from the least significant one
RECURSIVE And16(_, _)
And16(a, b) ==
    IF a = 0 \/ b = 0 THEN 0
    ELSE IF a = 65535 THEN b
    ELSE IF b = 65535 THEN a
    ELSE (a % 2) * (b % 2) + 2 * And16(a \div 2, b \div 2)

\* a | b on 16-bit words
Or16(a, b) == a + b - And16(a, b)

\* a & b, a | b, !a on u64
And64(a, b) == [k \in 1 .. 4 |-> And16(a[k], b[k])]
Or64(a, b) == [k \in 1 .. 4 |-> Or16(a[k], b[k])]
Not64(a) == [k \in 1 .. 4 |-> 65535 - a[k]]

\* word k of x, zero outside 1..4
Word(x, k) == IF k \in 1 .. 4 THEN x[k] ELSE 0

\* x << n on u64: the bits shifted past bit 63 are lost.  The amount is
\* taken modulo 64 as a release build does; a debug build panics when
\* n >= 64, which Report models separately.
Shl64(x, n) ==
    LET q == (n % 64) \div 16
        r == n % 16
    IN [k \in 1 .. 4 |->
          ((Word(x, k + q) * Pow2(r)) % 65536)
            + (Word(x, k + q + 1) \div Pow2(16 - r))]

\* v as u64, for a u16 v
U16AsU64(v) == <<0, 0, 0, v>>

\* Ord for u64: the most significant word in which the two differ decides
cmp64(a, b) ==
    IF a = b THEN "Equal"
    ELSE LET k == SetMin({i \in 1 .. 4 : a[i] # b[i]})
         IN IF a[k] < b[k] THEN "Less" ELSE "Greater"

\* ------------------------------------------------------------------------
\* IPv6Addr
\* ------------------------------------------------------------------------

IPv6Addr(h, l) == [high |-> h, low |-> l]

bitand(self, other) ==
    IPv6Addr(And64(self.high, other.high), And64(self.low, other.low))

bitor(self, other) ==
    IPv6Addr(Or64(self.high, other.high), Or64(self.low, other.low))

not(self) == IPv6Addr(Not64(self.high), Not64(self.low))

\* derived Ord: fields in declaration order, high first
cmp_low_first(a, b) ==
    LET c == cmp64(a.low, b.low)
    IN IF c # "Equal" THEN c ELSE cmp64(a.high, b.high)
cmp(a, b) ==
    LET c == cmp64(a.high, b.high)
    IN IF c # "Equal" THEN c ELSE cmp64(a.low, b.low)

le(a, b) == cmp(a, b) # "Greater"

\* ------------------------------------------------------------------------
\* Library string operations used by from_str
\* ------------------------------------------------------------------------

\* char::to_digit: the value of c as a digit of the radix, or -1
DigitValue(c) ==
    CASE c = "0" -> 0 [] c = "1" -> 1 [] c = "2" -> 2 [] c = "3" -> 3
      [] c = "4" -> 4 [] c = "5" -> 5 [] c = "6" -> 6 [] c = "7" -> 7
      [] c = "8" -> 8 [] c = "9" -> 9
      [] c \in {"a", "A"} -> 10 [] c \in {"b", "B"} -> 11
      [] c \in {"c", "C"} -> 12 [] c \in {"d", "D"} -> 13
      [] c \in {"e", "E"} -> 14 [] c \in {"f", "F"} -> 15
      [] c \in {"g", "G"} -> 16
      [] OTHER -> 36

to_digit(c, radix) == IF DigitValue(c) < radix THEN DigitValue(c) ELSE -1

\* the digit loop of from_str_radix: checked multiply and add, -1 on error
RECURSIVE accumulate(_, _, _, _)
accumulate(digits, radix, max, acc) ==
    IF digits = <<>> THEN acc
    ELSE LET d == to_digit(Head(digits), radix)
         IN IF d < 0 THEN -1
            ELSE IF acc * radix + d > max THEN -1
            ELSE accumulate(Tail(digits), radix, max, acc * radix + d)

\* <unsigned>::from_str_radix: empty, a lone sign and '-' are errors, one
\* leading '+' is skipped; -1 stands for Err
from_str_radix(src, radix, max) ==
    IF src = <<>> THEN -1
    ELSE IF Len(src) = 1 /\ src[1] \in {"+", "-"} THEN -1
    ELSE accumulate(IF src[1] = "+" THEN Tail(src) ELSE src, radix, max, 0)

\* the start positions of pat in s
Matches(s, pat) ==
    {i \in 1 .. (Len(s) - Len(pat) + 1) : SubSeq(s, i, i + Len(pat) - 1) = pat}

\* str::split_once
split_once(s, pat) ==
    LET hits == Matches(s, pat) IN
    IF hits = {} THEN [found |-> FALSE, left |-> s, right |-> <<>>]
    ELSE LET i == SetMin(hits)
         IN [found |-> TRUE,
             left  |-> SubSeq(s, 1, i - 1),
             right |-> SubSeq(s, i + Len(pat), Len(s))]

\* str::split(..).collect(): the pieces between the non-overlapping matches
\* found from the left
RECURSIVE split(_, _)
split(s, pat) ==
    LET hits == Matches(s, pat) IN
    IF hits = {} THEN <<s>>
    ELSE LET i == SetMin(hits)
         IN <<SubSeq(s, 1, i - 1)>>
              \o split(SubSeq(s, i + Len(pat), Len(s)), pat)

\* ------------------------------------------------------------------------
\* IPv6Prefix::from_str
\* ------------------------------------------------------------------------

MissingSeparator == "Brak '/' w prefiksie"
MalformedLength == "Niepoprawna dlugosc maski"
LengthOutOfRange == "Maska > 128"
MultipleZeroCompression == "Za duzo '::'"
TooManySegments == "Zbyt wiele segmentow IPv6"
MalformedSegment == "Bledny segment IPv6"

Ok(v) == [ok |-> TRUE, val |-> v]
Err(e) == [ok |-> FALSE, val |-> e]

IPv6Prefix(a, l) == [addr |-> a, len |-> l]

\* if parts.len() > 2
too_many_parts_ignored(parts) == FALSE
too_many_parts(parts) == Len(parts) > 2

\* head and tail groups of the split address text
head_of(parts) ==
    IF parts[1] = <<>> THEN <<>> ELSE split(parts[1], <<":">>)

tail_of(parts) ==
    IF Len(parts) = 2 /\ parts[2] # <<>> THEN split(parts[2], <<":">>)
    ELSE <<>>

\* the three loops filling segs; -1 marks a group that failed to parse
segments_zero_first(head, tail) ==
    [i \in 1 .. (8 - Len(head) - Len(tail)) |-> 0]
      \o [i \in 1 .. Len(head) |-> from_str_radix(head[i], 16, U16Max)]
      \o [i \in 1 .. Len(tail) |-> from_str_radix(tail[i], 16, U16Max)]
segments(head, tail) ==
    [i \in 1 .. Len(head) |-> from_str_radix(head[i], 16, U16Max)]
      \o [i \in 1 .. (8 - Len(head) - Len(tail)) |-> 0]
      \o [i \in 1 .. Len(tail) |-> from_str_radix(tail[i], 16, U16Max)]

\* high and low from segs[0..7] (1-based here)
pack_half(a, b, c, d) ==
    Or64(Or64(Or64(Shl64(U16AsU64(a), 48), Shl64(U16AsU64(b), 32)),
              Shl64(U16AsU64(c), 16)),
         U16AsU64(d))

pack(segs) ==
    IPv6Addr(pack_half(segs[1], segs[2], segs[3], segs[4]),
             pack_half(segs[5], segs[6], segs[7], segs[8]))

from_str(s) ==
    LET cut == split_once(s, <<"/">>) IN
    IF ~cut.found THEN Err(MissingSeparator)
    ELSE
    LET len == from_str_radix(cut.right, 10, U8Max) IN
    IF len < 0 THEN Err(MalformedLength)
    ELSE IF len > 128 THEN Err(LengthOutOfRange)
    ELSE
    LET parts == split(cut.left, <<":", ":">>) IN
    IF too_many_parts(parts) THEN Err(MultipleZeroCompression)
    ELSE
    LET head == head_of(parts)
        tail == tail_of(parts)
    IN
    IF Len(head) + Len(tail) > 8 THEN Err(TooManySegments)
    ELSE
    LET segs == segments(head, tail) IN
    IF \E i \in 1 .. Len(segs) : segs[i] < 0 THEN Err(MalformedSegment)
    ELSE Ok(IPv6Prefix(pack(segs), len))

\* ------------------------------------------------------------------------
\* IPv6Prefix::mask, range, overlaps
\* ------------------------------------------------------------------------

\* a - b on u8, wrapping as a release build does
U8Sub(a, b) == (a - b) % 256

\* mask(): val is the returned address, shifts the << executed on the way,
\* each with the half it computes and its amount
mask_no_zero_branch(self) ==
    LET m == self.len IN
    [val |-> IPv6Addr(IF m >= 64 THEN U64Max
                      ELSE Shl64(U64Max, U8Sub(64, m)),
                      IF m <= 64 THEN U64Zero
                      ELSE Shl64(U64Max, U8Sub(128, m))),
     shifts |-> (IF m >= 64 THEN <<>>
                 ELSE <<[half |-> "high", by |-> U8Sub(64, m)]>>)
                \o (IF m <= 64 THEN <<>>
                    ELSE <<[half |-> "low", by |-> U8Sub(128, m)]>>)]
mask_low_from_64(self) ==
    LET m == self.len IN
    IF m = 0 THEN [val |-> IPv6Addr(U64Zero, U64Zero), shifts |-> <<>>]
    ELSE
    [val |-> IPv6Addr(IF m >= 64 THEN U64Max
                      ELSE Shl64(U64Max, U8Sub(64, m)),
                      IF m <= 64 THEN U64Zero
                      ELSE Shl64(U64Max, U8Sub(m, 64))),
     shifts |-> (IF m >= 64 THEN <<>>
                 ELSE <<[half |-> "high", by |-> U8Sub(64, m)]>>)
                \o (IF m <= 64 THEN <<>>
                    ELSE <<[half |-> "low", by |-> U8Sub(m, 64)]>>)]
mask(self) ==
    LET m == self.len IN
    IF m = 0 THEN [val |-> IPv6Addr(U64Zero, U64Zero), shifts |-> <<>>]
    ELSE
    [val |-> IPv6Addr(IF m >= 64 THEN U64Max
                      ELSE Shl64(U64Max, U8Sub(64, m)),
                      IF m <= 64 THEN U64Zero
                      ELSE Shl64(U64Max, U8Sub(128, m))),
     shifts |-> (IF m >= 64 THEN <<>>
                 ELSE <<[half |-> "high", by |-> U8Sub(64, m)]>>)
                \o (IF m <= 64 THEN <<>>
                    ELSE <<[half |-> "low", by |-> U8Sub(128, m)]>>)]

\* range(): (net, bcast), with the mask it used and the shifts executed
range_net_unmasked(self) ==
    LET m == mask(self)
        net == self.addr
        bcast == bitor(net, not(m.val))
    IN [first |-> net, last |-> bcast, m |-> m.val, shifts |-> m.shifts]
range(self) ==
    LET m == mask(self)
        net == bitand(self.addr, m.val)
        bcast == bitor(net, not(m.val))
    IN [first |-> net, last |-> bcast, m |-> m.val, shifts |-> m.shifts]

\* overlaps(): the locals of the call and its result
overlaps_strict(self, other) ==
    LET r1 == range(self)
        r2 == range(other)
    IN [s1 |-> r1.first, e1 |-> r1.last, m1 |-> r1.m,
        s2 |-> r2.first, e2 |-> r2.last, m2 |-> r2.m,
        shifts |-> r1.shifts \o r2.shifts,
        result |-> cmp(r1.first, r2.last) = "Less"
                     /\ cmp(r2.first, r1.last) = "Less"]
overlaps_one_sided(self, other) ==
    LET r1 == range(self)
        r2 == range(other)
    IN [s1 |-> r1.first, e1 |-> r1.last, m1 |-> r1.m,
        s2 |-> r2.first, e2 |-> r2.last, m2 |-> r2.m,
        shifts |-> r1.shifts \o r2.shifts,
        result |-> le(r1.first, r2.last)]
overlaps(self, other) ==
    LET r1 == range(self)
        r2 == range(other)
    IN [s1 |-> r1.first, e1 |-> r1.last, m1 |-> r1.m,
        s2 |-> r2.first, e2 |-> r2.last, m2 |-> r2.m,
        shifts |-> r1.shifts \o r2.shifts,
        result |-> le(r1.first, r2.last) /\ le(r2.first, r1.last)]

\* ------------------------------------------------------------------------
\* Inputs: the two command-line arguments
\* ------------------------------------------------------------------------

\* number of groups and of '::' markers in a generated address text
MaxGroups == 9
MaxMarkers == 2
\* number of sample addresses used with every length
NumAddrs == 3

Chars(str) ==
    CASE str = "0" -> <<"0">>
      [] str = "64" -> <<"6", "4">>
      [] str = "128" -> <<"1", "2", "8">>
      [] str = "129" -> <<"1", "2", "9">>
      [] str = "255" -> <<"2", "5", "5">>
      [] str = "256" -> <<"2", "5", "6">>
      [] str = "1000" -> <<"1", "0", "0", "0">>
      [] str = "+5" -> <<"+", "5">>
      [] str = "-1" -> <<"-", "1">>
      [] str = "007" -> <<"0", "0", "7">>
      [] str = "6x" -> <<"6", "x">>
      [] str = "6/4" -> <<"6", "/", "4">>
      [] str = "+" -> <<"+">>
      [] str = "" -> <<>>
      [] str = "1" -> <<"1">>
      [] str = "ffff" -> <<"f", "f", "f", "f">>
      [] str = "FfFf" -> <<"F", "f", "F", "f">>
      [] str = "+1" -> <<"+", "1">>
      [] str = "+fff" -> <<"+", "f", "f", "f">>
      [] str = "00001" -> <<"0", "0", "0", "0", "1">>
      [] str = "10000" -> <<"1", "0", "0", "0", "0">>
      [] str = "g" -> <<"g">>
      [] str = "1 " -> <<"1", " ">>
      [] str = "2001" -> <<"2", "0", "0", "1">>
      [] str = "db8" -> <<"d", "b", "8">>
      [] str = "db9" -> <<"d", "b", "9">>
      [] str = "8000" -> <<"8", "0", "0", "0">>
      [] str = "fe80" -> <<"f", "e", "8", "0">>
      [] str = "1234" -> <<"1", "2", "3", "4">>

\* decimal text of n >= 0
DecDigit(d) == <<"0", "1", "2", "3", "4", "5", "6", "7", "8", "9">>[d + 1]

RECURSIVE Dec(_)
Dec(n) == IF n < 10 THEN <<DecDigit(n)>>
          ELSE Dec(n \div 10) \o <<DecDigit(n % 10)>>

\* Syntactic family: n groups, the i-th being the hex digit i, one of them
\* possibly replaced by another token; '::' in the slots of M (slot 0
\* before the first group, slot n after the last), ':' in the other inner
\* slots.
PlainGroup(i) == <<<<"1">>, <<"2">>, <<"3">>, <<"4">>, <<"5">>, <<"6">>,
                   <<"7">>, <<"8">>, <<"9">>, <<"a">>, <<"b">>, <<"c">>>>[i]

OddTokens == {Chars(t) : t \in {"ffff", "FfFf", "+1", "+fff", "00001",
                                "10000", "g", "-1", "", "1 ", "+"}}

Slot(k, n, M) ==
    IF k \in M THEN <<":", ":">>
    ELSE IF k = 0 \/ k = n THEN <<>>
    ELSE <<":">>

RECURSIVE Layout(_, _, _, _, _)
Layout(k, n, M, pos, tok) ==
    IF k > n THEN <<>>
    ELSE (IF k = 0 THEN <<>>
          ELSE IF k = pos THEN tok ELSE PlainGroup(k))
         \o Slot(k, n, M) \o Layout(k + 1, n, M, pos, tok)

MarkerSets(n) == {M \in SUBSET (0 .. n) : Cardinality(M) <= MaxMarkers}

AddrTexts ==
    UNION {UNION {{Layout(0, n, M, 0, <<>>)}
                    \cup {Layout(0, n, M, pos, tok) :
                            pos \in {1, n} \cap (1 .. n), tok \in OddTokens}
                  : M \in MarkerSets(n)}
           : n \in 0 .. MaxGroups}

GoodLenTexts == {Chars(t) : t \in {"0", "64", "128"}}

OddLenTexts == {Chars(t) : t \in {"129", "255", "256", "1000", "+5", "-1",
                                  "007", "6x", "6/4", "+", ""}}

FewAddrTexts ==
    {Chars("2001") \o <<":">> \o Chars("db8") \o <<":", ":">>,
     Chars("2001") \o <<":">> \o Chars("db8") \o <<":", ":">> \o <<"1">>
        \o <<":", ":">> \o <<"2">>,
     <<"g", ":", ":">>,
     <<"1", ":", "2", ":", "3", ":", "4", ":", "5", ":", "6", ":", "7", ":",
       "8", ":", "9">>}

SyntaxTexts ==
    {a \o <<"/">> \o l : a \in AddrTexts, l \in {Chars("64")}}
      \cup {a \o <<"/">> \o l : a \in FewAddrTexts,
                                l \in GoodLenTexts \cup OddLenTexts}
      \cup FewAddrTexts

\* Sample addresses: the text and the eight groups it denotes
SampleAddrs ==
    <<[text |-> Chars("2001") \o <<":">> \o Chars("db8") \o <<":", ":", "1">>,
       groups |-> <<8193, 3512, 0, 0, 0, 0, 0, 1>>],
      [text |-> Chars("2001") \o <<":">> \o Chars("db8")
                  \o <<":", "0", ":", "1", ":", ":">>,
       groups |-> <<8193, 3512, 0, 1, 0, 0, 0, 0>>],
      [text |-> Chars("2001") \o <<":">> \o Chars("db8") \o <<":", ":">>
                  \o Chars("8000") \o <<":", "0", ":", "0", ":", "0">>,
       groups |-> <<8193, 3512, 0, 0, 32768, 0, 0, 0>>],
      [text |-> Chars("fe80") \o <<":", ":">> \o Chars("1234"),
       groups |-> <<65152, 0, 0, 0, 0, 0, 0, 4660>>],
      [text |-> Chars("2001") \o <<":">> \o Chars("db9") \o <<":", ":">>,
       groups |-> <<8193, 3513, 0, 0, 0, 0, 0, 0>>],
      [text |-> Chars("2001") \o <<":">> \o Chars("db8") \o <<":", ":">>,
       groups |-> <<8193, 3512, 0, 0, 0, 0, 0, 0>>],
      [text |-> Chars("ffff") \o <<":">> \o Chars("ffff") \o <<":">>
                  \o Chars("ffff") \o <<":">> \o Chars("ffff") \o <<":">>
                  \o Chars("ffff") \o <<":">> \o Chars("ffff") \o <<":">>
                  \o Chars("ffff") \o <<":">> \o Chars("ffff"),
       groups |-> <<65535, 65535, 65535, 65535, 65535, 65535, 65535, 65535>>],
      [text |-> <<":", ":">>,
       groups |-> <<0, 0, 0, 0, 0, 0, 0, 0>>]>>

PrefixText(i, l) == SampleAddrs[i].text \o <<"/">> \o Dec(l)

\* every length with the first NumAddrs samples, and with all of them
PrefixTexts == {PrefixText(i, l) : i \in 1 .. NumAddrs, l \in 0 .. 128}

AllPrefixTexts ==
    {PrefixText(i, l) : i \in 1 .. Len(SampleAddrs), l \in 0 .. 128}

SecondTexts ==
    {<<":", ":", "/", "0">>,
     Chars("2001") \o <<":">> \o Chars("db8") \o <<":", ":", "/", "3", "2">>,
     Chars("2001") \o <<":">> \o Chars("db8") \o <<":", ":", "1", "/">>
        \o Chars("128"),
     <<":", ":", "1", "/", "1", "2", "9">>}

\* ------------------------------------------------------------------------
\* main
\* ------------------------------------------------------------------------

Unset == [ok |-> FALSE, val |-> ""]

NoLocals == [s1 |-> IPv6Addr(U64Zero, U64Zero), e1 |-> IPv6Addr(U64Zero, U64Zero),
             m1 |-> IPv6Addr(U64Zero, U64Zero),
             s2 |-> IPv6Addr(U64Zero, U64Zero), e2 |-> IPv6Addr(U64Zero, U64Zero),
             m2 |-> IPv6Addr(U64Zero, U64Zero),
             shifts |-> <<>>, result |-> FALSE]

Start ==
    /\ pc = "parse1"
    /\ p1 = Unset
    /\ p2 = Unset
    /\ loc = NoLocals
    /\ out = ""

\* main is given exactly two arguments (any other count prints the usage
\* line and exits before anything is parsed); here two of varied syntax
Init ==
    /\ args \in SyntaxTexts \X SecondTexts
    /\ Start

\* two well-formed prefixes of every length, and a few ill-formed second ones
InitPrefix ==
    /\ args \in PrefixTexts \X (PrefixTexts \cup SecondTexts)
    /\ Start

\* one well-formed prefix of every length with every sample address
InitSingle ==
    /\ args \in AllPrefixTexts \X SecondTexts
    /\ Start

\* let p1: IPv6Prefix = args[1].parse().expect(..)
ParseFirst ==
    /\ pc = "parse1"
    /\ p1' = from_str(args[1])
    /\ pc' = IF p1'.ok THEN "parse2" ELSE "panic"
    /\ out' = IF p1'.ok THEN out ELSE "Bledny pierwszy prefiks"
    /\ UNCHANGED <<args, p2, loc>>

\* let p2: IPv6Prefix = args[2].parse().expect(..)
ParseSecond ==
    /\ pc = "parse2"
    /\ p2' = from_str(args[2])
    /\ pc' = IF p2'.ok THEN "overlaps" ELSE "panic"
    /\ out' = IF p2'.ok THEN out ELSE "Bledny drugi prefiks"
    /\ UNCHANGED <<args, p1, loc>>

\* println!("{}", if p1.overlaps(&p2) { "tak" } else { "nie" }).  A shift
\* by 64 or more panics in a debug build and wraps in a release build; loc
\* keeps the shifts requested in both cases and the other locals mean
\* something only when pc = "done".
Report ==
    /\ pc = "overlaps"
    /\ loc' = overlaps(p1.val, p2.val)
    /\ pc' \in IF \E i \in 1 .. Len(loc'.shifts) : loc'.shifts[i].by >= 64
               THEN {"panic", "done"}
               ELSE {"done"}
    /\ out' = IF pc' = "panic" THEN "attempt to shift left with overflow"
              ELSE IF loc'.result THEN "tak" ELSE "nie"
    /\ UNCHANGED <<args, p1, p2>>

Next == ParseFirst \/ ParseSecond \/ Report

Spec == Init /\ [][Next]_vars

SpecPrefix == InitPrefix /\ [][Next]_vars

SpecSingle == InitSingle /\ [][Next]_vars

TypeOK ==
    /\ pc \in {"parse1", "parse2", "overlaps", "done", "panic"}
    /\ out \in {"", "tak", "nie", "Bledny pierwszy prefiks",
                "Bledny drugi prefiks", "attempt to shift left with overflow"}

\* ------------------------------------------------------------------------
\* Reference notions used by the properties
\* ------------------------------------------------------------------------

Parsed1 == pc # "parse1"

\* the eight 16-bit groups of an address, most significant first
Words8(a) == a.high \o a.low

\* the unsigned 128-bit order, the groups read as base-65536 digits
Lt128(a, b) ==
    LET x == Words8(a)
        y == Words8(b)
    IN \E k \in 1 .. 8 : x[k] < y[k] /\ \A j \in 1 .. (k - 1) : x[j] = y[j]

Le128(a, b) == a = b \/ Lt128(a, b)

\* how many bits of group w lie below the top L bits of the address
HostBits(w, L) ==
    IF 16 * w <= L THEN 0
    ELSE IF 16 * (w - 1) >= L THEN 16
    ELSE 16 * w - L

\* the groups of a with the low 128 - L bits cleared, and with them set
ClearHost(a, L) ==
    [w \in 1 .. 8 |-> Words8(a)[w] - (Words8(a)[w] % Pow2(HostBits(w, L)))]

SetHost(a, L) ==
    [w \in 1 .. 8 |-> Words8(a)[w] - (Words8(a)[w] % Pow2(HostBits(w, L)))
                        + Pow2(HostBits(w, L)) - 1]

\* the groups of the address with exactly the top L bits set
TopBits(L) == [w \in 1 .. 8 |-> 65535 - (Pow2(HostBits(w, L)) - 1)]

\* a and b agree on their top L bits
AgreeTop(a, b, L) ==
    \A w \in 1 .. 8 :
        Words8(a)[w] \div Pow2(HostBits(w, L))
          = Words8(b)[w] \div Pow2(HostBits(w, L))

\* text before and after the first '/'
HasSlash(s) == \E i \in 1 .. Len(s) : s[i] = "/"
FirstSlash(s) == SetMin({i \in 1 .. Len(s) : s[i] = "/"})
AddrPart(s) == SubSeq(s, 1, FirstSlash(s) - 1)
LenPart(s) == SubSeq(s, FirstSlash(s) + 1, Len(s))

DecChars == {"0", "1", "2", "3", "4", "5", "6", "7", "8", "9"}
HexChars == DecChars \cup {"a", "b", "c", "d", "e", "f",
                           "A", "B", "C", "D", "E", "F"}

AllDigits(l) == l # <<>> /\ \A i \in 1 .. Len(l) : l[i] \in DecChars

\* positional value of a digit string, a '+' counting for nothing
RECURSIVE RefValue(_, _)
RefValue(l, radix) ==
    IF l = <<>> THEN 0
    ELSE IF l[Len(l)] = "+" THEN RefValue(SubSeq(l, 1, Len(l) - 1), radix)
    ELSE radix * RefValue(SubSeq(l, 1, Len(l) - 1), radix)
           + DigitValue(l[Len(l)])

ValidLen(l) == AllDigits(l) /\ RefValue(l, 10) <= 128

\* positions where a '::' starts
MarkerPos(t) == {i \in 1 .. (Len(t) - 1) : t[i] = ":" /\ t[i + 1] = ":"}

\* each maximal run of characters other than ':' is a group
RunStarts(t) ==
    {i \in 1 .. Len(t) : t[i] # ":" /\ (i = 1 \/ t[i - 1] = ":")}

RunEnd(t, i) == SetMin({j \in i .. Len(t) : j = Len(t) \/ t[j + 1] = ":"})

Run(t, i) == SubSeq(t, i, RunEnd(t, i))

\* start of the k-th group
NthStart(t, k) ==
    CHOOSE i \in RunStarts(t) :
        Cardinality({j \in RunStarts(t) : j <= i}) = k

\* groups before the first '::' (all of them when there is none), and after
HeadCount(t) ==
    IF MarkerPos(t) = {} THEN Cardinality(RunStarts(t))
    ELSE Cardinality({i \in RunStarts(t) : i < SetMin(MarkerPos(t))})

TailCount(t) == Cardinality(RunStarts(t)) - HeadCount(t)

\* no ':' at either end that is not part of a '::'
Clean(t) ==
    t = <<>> \/ (/\ (t[1] = ":" => 1 \in MarkerPos(t))
                 /\ (t[Len(t)] = ":" => (Len(t) - 1) \in MarkerPos(t)))

\* the address the text denotes: head groups, zero groups, tail groups
RefGroups(t) ==
    LET h == HeadCount(t)
        n == Cardinality(RunStarts(t))
    IN [k \in 1 .. 8 |->
          IF k <= h THEN RefValue(Run(t, NthStart(t, k)), 16)
          ELSE IF k > 8 - (n - h)
               THEN RefValue(Run(t, NthStart(t, k - 8 + n)), 16)
               ELSE 0]

PlainGroups(t) ==
    \A i \in RunStarts(t) :
        /\ Len(Run(t, i)) <= 4
        /\ \A j \in 1 .. Len(Run(t, i)) : Run(t, i)[j] \in HexChars

\* ------------------------------------------------------------------------
\* Properties
\* ------------------------------------------------------------------------

\* C1: overlaps returns true exactly when s1 <= e2 and s2 <= e1 in the
\* unsigned 128-bit order, that is exactly when the larger of the two
\* first addresses lies in both closed ranges; the answer printed is that
\* result.
C1_OverlapsIsIntervalTest ==
    pc = "done" =>
      /\ loc.result = (Le128(loc.s1, loc.e2) /\ Le128(loc.s2, loc.e1))
      /\ LET x == IF Le128(loc.s1, loc.s2) THEN loc.s2 ELSE loc.s1
         IN loc.result = (/\ Le128(loc.s1, x) /\ Le128(x, loc.e1)
                          /\ Le128(loc.s2, x) /\ Le128(x, loc.e2))
      /\ out = IF loc.result THEN "tak" ELSE "nie"

C1_Witness ==
    /\ pc = "done"
    /\ loc.result
    /\ p1.val.len = 128
    /\ p2.val.len = 64
    /\ p1.val.addr # p2.val.addr
    /\ out = "tak"

\* C2: mask() of a prefix of length L is the address with the top L bits
\* set and the others clear, whatever the stored address: all zero for 0,
\* high all ones and low zero for 64, all ones for 128.
C2_MaskIsTopBits ==
    pc = "done" =>
      /\ Words8(loc.m1) = TopBits(p1.val.len)
      /\ Words8(loc.m2) = TopBits(p2.val.len)
      /\ p1.val.len = 0 => loc.m1 = IPv6Addr(U64Zero, U64Zero)
      /\ p1.val.len = 64 => loc.m1 = IPv6Addr(U64Max, U64Zero)
      /\ p1.val.len = 128 => loc.m1 = IPv6Addr(U64Max, U64Max)

C2_Witness ==
    /\ pc = "done"
    /\ p1.val.len = 64
    /\ loc.m1 = IPv6Addr(U64Max, U64Zero)
    /\ p1.val.addr.low # U64Zero

\* C3: range() returns the stored address with its 128 - L host bits
\* cleared and with them set, first <= last; two prefixes of one length
\* that agree on the top L bits have the same range; a sample address is
\* parsed to its groups whatever the length, host bits kept.
C3_RangeClearsAndSetsHostBits ==
    /\ Parsed1 =>
         /\ p1.ok
         /\ \E i \in 1 .. NumAddrs :
              /\ args[1] = PrefixText(i, p1.val.len)
              /\ Words8(p1.val.addr) = SampleAddrs[i].groups
    /\ pc = "done" =>
         /\ Words8(loc.s1) = ClearHost(p1.val.addr, p1.val.len)
         /\ Words8(loc.e1) = SetHost(p1.val.addr, p1.val.len)
         /\ Words8(loc.s2) = ClearHost(p2.val.addr, p2.val.len)
         /\ Words8(loc.e2) = SetHost(p2.val.addr, p2.val.len)
         /\ Le128(loc.s1, loc.e1)
         /\ Le128(loc.s2, loc.e2)
         /\ (/\ p1.val.len = p2.val.len
             /\ AgreeTop(p1.val.addr, p2.val.addr, p1.val.len))
              => (loc.s1 = loc.s2 /\ loc.e1 = loc.e2)

C3_Witness ==
    /\ pc = "done"
    /\ p1.val.len = 64
    /\ p2.val.len = 64
    /\ p1.val.addr # p2.val.addr
    /\ loc.s1 # p1.val.addr
    /\ loc.s1 = loc.s2
    /\ loc.e1 = loc.e2

\* C4: a length text that is an unsigned decimal integer is rejected with
\* the out-of-range error when its value exceeds 128 and accepted as the
\* length otherwise; the malformed-length error is kept for texts that are
\* not such an integer.
C4_LengthOutOfRange ==
    (Parsed1 /\ HasSlash(args[1])) =>
      /\ (AllDigits(LenPart(args[1])) /\ RefValue(LenPart(args[1]), 10) > 128)
           => p1 = Err(LengthOutOfRange)
      /\ ValidLen(LenPart(args[1]))
           => (p1.ok => p1.val.len = RefValue(LenPart(args[1]), 10))
                /\ (~p1.ok => p1.val \notin {MalformedLength, LengthOutOfRange})
      /\ p1 = Err(MalformedLength) => ~AllDigits(LenPart(args[1]))

\* C5: once the group-parsing step is reached, a group that is empty, has
\* more than 4 characters or holds a character that is no hex digit makes
\* from_str fail with the malformed-segment error.
C5_BadGroupRejected ==
    (/\ Parsed1
     /\ (p1.ok \/ p1 = Err(MalformedSegment))
     /\ (\/ ~Clean(AddrPart(args[1]))
         \/ Cardinality(MarkerPos(AddrPart(args[1]))) > 1
         \/ ~PlainGroups(AddrPart(args[1]))))
      => p1 = Err(MalformedSegment)

\* C6: a text parsed with h head and t tail groups yields the h head
\* groups, 8 - h - t zero groups and the t tail groups, groups 1..4 in
\* high and 5..8 in low, most significant first; fewer than 8 groups
\* without '::' are accepted, more than 8 groups give the too-many-segments
\* error.
C6_ZeroFillAndPack ==
    Parsed1 =>
      /\ p1.ok =>
           /\ HeadCount(AddrPart(args[1])) + TailCount(AddrPart(args[1])) <= 8
           /\ Words8(p1.val.addr) = RefGroups(AddrPart(args[1]))
      /\ (/\ HasSlash(args[1])
          /\ ValidLen(LenPart(args[1]))
          /\ Clean(AddrPart(args[1]))
          /\ Cardinality(MarkerPos(AddrPart(args[1]))) <= 1)
           => /\ Cardinality(RunStarts(AddrPart(args[1]))) > 8
                   => p1 = Err(TooManySegments)
              /\ (/\ MarkerPos(AddrPart(args[1])) = {}
                  /\ Cardinality(RunStarts(AddrPart(args[1]))) < 8
                  /\ PlainGroups(AddrPart(args[1])))
                   => p1.ok

C6_Witness ==
    /\ Parsed1
    /\ p1.ok
    /\ HeadCount(AddrPart(args[1])) = 2
    /\ TailCount(AddrPart(args[1])) = 3
    /\ Words8(p1.val.addr) = <<1, 2, 0, 0, 0, 3, 4, 5>>

\* C7: with a separator and a valid length, two or more non-overlapping
\* '::' in the address text give the multiple-zero-compression error,
\* whatever the groups.
C7_TwoMarkersRejected ==
    (/\ Parsed1
     /\ HasSlash(args[1])
     /\ ValidLen(LenPart(args[1]))
     /\ \E i, j \in MarkerPos(AddrPart(args[1])) : j >= i + 2)
      => p1 = Err(MultipleZeroCompression)

C7_Witness ==
    /\ Parsed1
    /\ p1 = Err(MultipleZeroCompression)
    /\ Cardinality(RunStarts(AddrPart(args[1]))) = 9
    /\ ~PlainGroups(AddrPart(args[1]))

\* C8 as stated: a prefix of length 128 overlaps another prefix exactly
\* when the two stored addresses are equal.
C8_Length128IffEqualAddresses ==
    (pc = "done" /\ p1.val.len = 128) =>
      loc.result = (p1.val.addr = p2.val.addr)

\* C8 amended: a prefix of length 128 overlaps another prefix exactly when
\* its address lies in the range of the other, which for another prefix of
\* length 128 is exactly when the two stored addresses are equal.
C8_Length128IffInRange ==
    (pc = "done" /\ p1.val.len = 128) =>
      /\ loc.result = (/\ Le128(loc.s2, p1.val.addr)
                       /\ Le128(p1.val.addr, loc.e2))
      /\ p2.val.len = 128 => loc.result = (p1.val.addr = p2.val.addr)

C8_Witness ==
    /\ pc = "done"
    /\ p1.val.len = 128
    /\ p2.val.len = 128
    /\ p1.val.addr = p2.val.addr
    /\ loc.result

\* C9: mask() executes the high-half shift, by 64 - len, only for
\* 1 <= len <= 63 and the low-half shift, by 128 - len, only for
\* 65 <= len <= 128, so every shift amount lies in 0..63 and no run ends
\* in a shift overflow.
ExpectedShifts(L) ==
    (IF 1 <= L /\ L <= 63 THEN <<[half |-> "high", by |-> 64 - L]>>
     ELSE <<>>)
      \o (IF 65 <= L /\ L <= 128 THEN <<[half |-> "low", by |-> 128 - L]>>
          ELSE <<>>)

C9_ShiftAmountsBelow64 ==
    /\ out # "attempt to shift left with overflow"
    /\ pc = "done" =>
         /\ loc.shifts = ExpectedShifts(p1.val.len) \o ExpectedShifts(p2.val.len)
         /\ \A i \in 1 .. Len(loc.shifts) : loc.shifts[i].by \in 0 .. 63

C9_Witness ==
    /\ pc = "done"
    /\ p1.val.len = 65
    /\ p2.val.len = 0
    /\ loc.shifts = <<[half |-> "low", by |-> 63]>>

\* C10: two prefixes overlap exactly when the range of the longer one lies
\* within the range of the other, exactly when the stored addresses agree
\* on their top min(len, len) bits; a prefix of length 0 overlaps every
\* prefix and every prefix overlaps itself.
C10_NestedOrDisjoint ==
    pc = "done" =>
      LET la == p1.val.len
          lb == p2.val.len
          inside12 == Le128(loc.s2, loc.s1) /\ Le128(loc.e1, loc.e2)
          inside21 == Le128(loc.s1, loc.s2) /\ Le128(loc.e2, loc.e1)
      IN /\ loc.result
              = AgreeTop(p1.val.addr, p2.val.addr, IF la <= lb THEN la ELSE lb)
         /\ la >= lb => loc.result = inside12
         /\ lb >= la => loc.result = inside21
         /\ (la = 0 \/ lb = 0) => loc.result
         /\ p1.val = p2.val => loc.result

C10_Witness ==
    /\ pc = "done"
    /\ loc.result
    /\ p1.val.len > p2.val.len
    /\ p2.val.len > 64
    /\ loc.s1 # loc.s2
    /\ loc.e1 # loc.e2

====
